---- MODULE Spec2Model ----
(***************************************************************************)
(* ice9d: the remote command execution server (src/ice9d.c).               *)
(*                                                                         *)
(* The model follows the server's event loop (main), its per-connection   *)
(* handlers (connection_read, connection_write, connection_flush,          *)
(* connection_close, pipe_read, process_exit) and the connection table.    *)
(* The operating system and the pipe9x library are the environment: every  *)
(* result a call can return (recv, send, CreateProcess, pipe9x calls) is a *)
(* nondeterministic input of the action that makes the call.               *)
(*                                                                         *)
(* Buffers hold bytes.  A buffer is written as a sequence of runs: the run *)
(* [src, lo, hi] stands for the bytes src[lo], ..., src[hi-1] of a byte    *)
(* source.  Source "b" is the literal source (its byte k has value k);     *)
(* "O" and "E" are the bytes a child writes to stdout and stderr, "I" the  *)
(* bytes a client sends as stdin data, each numbered from 0 per session.   *)
(* This keeps the real buffer sizes and still tells every byte apart.      *)
(***************************************************************************)
EXTENDS Integers, Sequences, FiniteSets, TLC

\* ------------------------------------------------------------ constants
MAX_CONNECTIONS == 16
PIPE_READ_SIZE  == 32768
RECVBUF_SIZE    == 72 * 1024
SENDBUF_SIZE    == 128 * 1024
\* sizeof(struct MessageHeader), packed: 1 + 2
HEADER_SIZE     == 3
\* sizeof(int32_t), the payload of an X frame
EXIT_CODE_SIZE  == 4

CS_SETUP   == 0
CS_RUNNING == 1
CS_CLOSING == 2

NULL           == 0
INVALID_SOCKET == -1

\* Command bytes (ASCII).
CMD_A == 65
CMD_C == 67
CMD_E == 69
CMD_I == 73
CMD_O == 79
CMD_W == 87
CMD_X == 88
\* A byte that is no command of the protocol ('Z').
CMD_BAD == 90
\* The largest payload_length a header can carry (uint16_t).
MAX_PAYLOAD == 65535
\* ice9r.c, static char buf[1024]: the most one read() of stdin returns.
STDIN_CHUNK == 1024
\* offsetof(struct Connection, recvbuf): id, state and sock come first.
RECVBUF_OFFSET == 12

\* ------------------------------------------------------------ bounds
\* Frames one client sends over the life of its connection.
MaxFrames == 3
\* Read completions delivered by the output pipes of one session.
MaxReads == 4
\* The same, for a child that writes little.
MaxSmallReads == 1
\* Times send() takes only part of what one session offers.
MaxPartialSends == 1
\* Stdin frames a client sends after it has started its child.
MaxStdinFrames == 5
\* Children CreateProcess starts for one session.
MaxSpawns == 2
\* Clients that connect where a scenario is about the connection table.
MaxSessions == 2
\* Clients that may disconnect where a scenario fills the connection table.
MaxDrops == 0
\* Stdin frames of the largest payload a client sends.
MaxBulkFrames == 3
\* Stdin frames a client of ice9r.c sends whose stdin never ends: one that
\* is written to the pipe and enough to fill the receive buffer behind it.
MaxFeedFrames == 73
\* Bursts of two frames a client sends where a scenario is about parsing.
MaxBursts == 1
\* The longest payload in a burst: it takes both bytes of payload_length.
LongPayload == 256

\* ------------------------------------------------------------ bytes
Min(a, b) == IF a < b THEN a ELSE b

\* The value of byte k of a source: literal bytes are themselves, data
\* bytes carry a position-dependent pattern.
ByteVal(src, k) == IF src = "b" THEN k ELSE k % 256

Run(src, lo, hi) == [src |-> src, lo |-> lo, hi |-> hi]

\* One literal byte.
Lit(v) == <<Run("b", v, v + 1)>>

RECURSIVE BLen(_)
\* Number of bytes in a run sequence (by halves: the recursion stays
\* shallow on buffers of many runs).
BLen(rs) ==
    IF rs = <<>> THEN 0
    ELSE IF Len(rs) = 1 THEN rs[1].hi - rs[1].lo
    ELSE BLen(SubSeq(rs, 1, Len(rs) \div 2))
         + BLen(SubSeq(rs, Len(rs) \div 2 + 1, Len(rs)))

\* Concatenation, joining adjacent runs of one source so that equal byte
\* strings have equal representations.
Cat(a, b) ==
    IF a = <<>> THEN b
    ELSE IF b = <<>> THEN a
    ELSE LET x == a[Len(a)]
             y == b[1]
         IN  IF x.src = y.src /\ x.hi = y.lo
                THEN SubSeq(a, 1, Len(a) - 1) \o <<Run(x.src, x.lo, y.hi)>> \o Tail(b)
                ELSE a \o b

RECURSIVE Take(_, _)
\* The first n bytes.
Take(rs, n) ==
    IF n <= 0 \/ rs = <<>> THEN <<>>
    ELSE IF Len(rs) = 1
    THEN LET r == rs[1]
         IN  IF n >= r.hi - r.lo THEN rs ELSE <<Run(r.src, r.lo, r.lo + n)>>
    ELSE LET left  == SubSeq(rs, 1, Len(rs) \div 2)
             right == SubSeq(rs, Len(rs) \div 2 + 1, Len(rs))
             l     == BLen(left)
         IN  IF n <= l THEN Take(left, n)
                       ELSE Cat(Take(left, l), Take(right, n - l))

RECURSIVE Drop(_, _)
\* All but the first n bytes: memmove(buf, buf + n, used - n).
Drop(rs, n) ==
    IF n <= 0 \/ rs = <<>> THEN rs
    ELSE IF Len(rs) = 1
    THEN LET r == rs[1]
         IN  IF n >= r.hi - r.lo THEN <<>> ELSE <<Run(r.src, r.lo + n, r.hi)>>
    ELSE LET left  == SubSeq(rs, 1, Len(rs) \div 2)
             right == SubSeq(rs, Len(rs) \div 2 + 1, Len(rs))
             l     == BLen(left)
         IN  IF n >= l THEN Drop(right, n - l)
                       ELSE Drop(left, n) \o right

RECURSIVE ByteAt(_, _)
\* The value of byte k (from 0); -1 past the end.
ByteAt(rs, k) ==
    IF rs = <<>> THEN -1
    ELSE LET r == Head(rs)
             l == r.hi - r.lo
         IN  IF k < l THEN ByteVal(r.src, r.lo + k) ELSE ByteAt(Tail(rs), k - l)

\* The bytes of recvbuf[] the model keeps when used of them are buffered
\* input: those, and of the bytes behind them the ones at offsets below
\* STALE_REACH.  The program reads no other byte of the array: the parser
\* reads below recvbuf_used, recv writes from recvbuf_used on, and the
\* memmove of connection_close copies fewer than MAX_CONNECTIONS bytes of
\* a struct whose recvbuf starts at offset RECVBUF_OFFSET.
STALE_REACH == MAX_CONNECTIONS - 1 - RECVBUF_OFFSET
Kept(buf, used) == Take(buf, IF used > STALE_REACH THEN used ELSE STALE_REACH)

\* memmove(buf, buf + n, used - n): the used - n bytes after the first n
\* move to the front, the bytes from offset used - n on stay as they were.
Memmove(buf, n, used) ==
    Kept(Cat(Take(Drop(buf, n), used - n), Drop(buf, used - n)), used - n)

\* recv(sock, buf + used, ...) stored bytes: they replace what the array
\* held from offset used on, the bytes after them stay.
StoreAt(buf, used, bytes) ==
    Kept(Cat(Cat(Take(buf, used), bytes), Drop(buf, used + BLen(bytes))),
         used + BLen(bytes))

\* uint16_t / int32_t stored little-endian (x86).
LE16(n) == Cat(Lit(n % 256), Lit((n \div 256) % 256))
LE32(n) == Cat(LE16(n % 65536), LE16((n \div 65536) % 65536))

\* struct MessageHeader at the head of a buffer.
HeaderCommand(buf) == ByteAt(buf, 0)
HeaderLength(buf)  == ByteAt(buf, 1) + 256 * ByteAt(buf, 2)

\* A frame as it travels: header, then payload.
EncodeFrame(cmd, payload) == Cat(Cat(Lit(cmd), LE16(BLen(payload))), payload)

\* ------------------------------------------------------------ sessions
\* char* fields: <<>> is the null pointer, <<bytes>> a stored string.
NULL_STR == <<>>

\* struct Connection as connection_init leaves it, with the environment of
\* the session beside the program's fields.  recvbuf holds bytes of
\* recvbuf[] from offset 0: the first recvbuf_used of them are the buffered
\* input, the rest is what earlier frames left behind (see Kept); bytes
\* never written are 0 (static storage).
\*   net_in        bytes the client has sent that recv has not yet returned
\*   frames_in     frames the client has sent so far
\*   bad_in        those of them whose command byte is no command
\*   in_pos        bytes of stdin data ("I") the client has sent so far
\*   in_eof        the client has sent an empty I frame (ice9r.c: stdin_fd < 0)
\*   bytes_in      bytes recv has stored so far
\*   wire          bytes send() has accepted, in order
\*   stdout_armed, stderr_armed   a read is outstanding on that pipe
\*   stdin_pending pipe9x_write_pending(stdin_pipe)
\*   stdout_pos, stderr_pos       bytes that pipe's read completions have delivered
\*   reads         read completions with status Ok consumed so far
\*   writes        write completions with status Ok consumed so far
\*   overlapped    an operation was started on a pipe handle that had one
\*                 outstanding
\*   spawns        children created for this session
\*   stdin_log     bytes submitted to the child's stdin, in order
\*   stdin_stalled the I frame at the head of recvbuf has stalled
\*   stdin_retries payloads submitted from a frame that had stalled before
\*   sent_log      <<command, payload length>> of every frame appended to sendbuf
\*   partial_sends times send() took less than it was offered
NewConnection(id, newsock) ==
    [ id |-> id, state |-> CS_SETUP, sock |-> newsock,
      recvbuf |-> <<>>, recvbuf_used |-> 0,
      sendbuf |-> <<>>, sendbuf_used |-> 0,
      application_path |-> NULL_STR, command_line |-> NULL_STR,
      working_directory |-> NULL_STR,
      process |-> NULL, stdin_pipe |-> NULL, stdout_pipe |-> NULL, stderr_pipe |-> NULL,
      net_in |-> <<>>, frames_in |-> 0, bad_in |-> 0, in_pos |-> 0, in_eof |-> FALSE,
      bytes_in |-> 0,
      wire |-> <<>>, overlapped |-> FALSE,
      stdout_armed |-> FALSE, stderr_armed |-> FALSE, stdin_pending |-> FALSE,
      stdout_pos |-> 0, stderr_pos |-> 0, reads |-> 0, writes |-> 0, spawns |-> 0,
      stdin_log |-> <<>>, stdin_stalled |-> FALSE, stdin_retries |-> 0,
      sent_log |-> <<>>, partial_sends |-> 0 ]

\* The handlers work on the server's globals, gathered in one record:
\*   connections, num_connections, next_connection_id   the statics of ice9d.c
\*   graveyard   the sessions destroyed so far, each as connection_close
\*               found it, with the reason of the call
\*   orphans     children whose handle the server dropped while they ran
\* A handler's result is [w, ok, abort]: the globals after it, its return
\* value, and whether it called abort() or crashed the server; with abort,
\* answer is what pipe9x_read_initiate had answered before the call of
\* abort() ("none" for a crash).
Ret(w, ok) == [w |-> w, ok |-> ok, abort |-> FALSE]
Abort(w, answer) == [w |-> w, ok |-> FALSE, abort |-> TRUE, answer |-> answer]

\* connections[idx] (idx counts from 0, as in the source).
Conn(w, idx) == w.connections[idx + 1]
SetConn(w, idx, c) == [w EXCEPT !.connections[idx + 1] = c]

\* connections[num_connections] after connection_init has set its fields:
\* the slot is new, or it is one an earlier session has left, whose
\* recvbuf[] bytes connection_init does not clear.
InitSlot(w, newsock) ==
    IF Len(w.connections) > w.num_connections
    THEN [w.connections EXCEPT ![w.num_connections + 1] =
             [NewConnection(w.next_connection_id, newsock) EXCEPT !.recvbuf =
                 w.connections[w.num_connections + 1].recvbuf]]
    ELSE Append(w.connections, NewConnection(w.next_connection_id, newsock))

\* connection_init without its test of num_connections.
connection_init_uncapped(w, newsock) ==
    [w EXCEPT !.connections = InitSlot(w, newsock),
              !.num_connections = @ + 1,
              !.next_connection_id = @ + 1]

\* connection_init: a new Connection in the first free slot, or the socket
\* closed when the table is full.
connection_init(w, newsock) ==
    IF w.num_connections = MAX_CONNECTIONS
    THEN w
    ELSE [w EXCEPT !.connections = InitSlot(w, newsock),
                   !.num_connections = @ + 1,
                   !.next_connection_id = @ + 1]

\* A 32-bit two's-complement int whose n low-order bytes (little-endian, n
\* in 0..4) are those of src and whose other bytes are those of dst.
OverlayInt(dst, src, n) ==
    IF n <= 0 THEN dst
    ELSE IF n >= 4 THEN src
    ELSE LET m == 256 ^ n
         IN  (src % m) + (dst \div m) * m

\* memmove(dst, src, k) on two Connection structs, k < 16: id is at offset
\* 0, state at 4, sock at 8, recvbuf at RECVBUF_OFFSET.  The bytes of src.recvbuf[] are
\* copied as they are, buffered input or not; bytes never written in either
\* array are 0 (static storage) and stay unwritten.
OverlayConnection(dst, src, k) ==
    LET m  == IF k > RECVBUF_OFFSET THEN k - RECVBUF_OFFSET ELSE 0
        sb == [p \in 0..2 |-> IF p < BLen(src.recvbuf) THEN ByteAt(src.recvbuf, p) ELSE 0]
        n  == Min(m, IF BLen(dst.recvbuf) > BLen(src.recvbuf)
                        THEN BLen(dst.recvbuf) ELSE BLen(src.recvbuf))
        hd == Take(Cat(Cat(Lit(sb[0]), Lit(sb[1])), Lit(sb[2])), n)
    IN  [dst EXCEPT !.id    = OverlayInt(dst.id, src.id, k),
                    !.state = OverlayInt(dst.state, src.state, k - 4),
                    !.sock  = OverlayInt(dst.sock, src.sock, k - 8),
                    !.recvbuf = Cat(hd, Drop(dst.recvbuf, BLen(hd)))]

\* What the graveyard keeps of a connection that connection_close destroys.
Epitaph(c, reason) ==
    [ reason |-> reason, id |-> c.id, state |-> c.state,
      sendbuf_used |-> c.sendbuf_used, process |-> c.process,
      recvbuf |-> Take(c.recvbuf, c.recvbuf_used), recvbuf_used |-> c.recvbuf_used,
      wire_used |-> BLen(c.wire), overlapped |-> c.overlapped, spawns |-> c.spawns,
      sent_log |-> c.sent_log ]

\* connection_close: close the socket, terminate the child, forget the
\* pipes, free the strings, then
\*   memmove(connections + idx, connections + idx + 1, num_connections - idx - 1)
\* (a count of bytes) and --num_connections.  No slot of connections[] but
\* idx is written: when idx is not the last slot, the last one leaves the
\* table as it is, with its socket open and its child running.
connection_close(w, idx, reason) ==
    LET c    == Conn(w, idx)
        dead == [c EXCEPT !.sock = INVALID_SOCKET, !.process = NULL,
                          !.stdin_pipe = NULL, !.stderr_pipe = NULL, !.stdout_pipe = NULL,
                          !.working_directory = NULL_STR, !.command_line = NULL_STR,
                          !.application_path = NULL_STR]
        k    == w.num_connections - idx - 1
        slot == IF k > 0 THEN OverlayConnection(dead, Conn(w, idx + 1), k) ELSE dead
        last == w.connections[w.num_connections]
    IN  [w EXCEPT !.connections[idx + 1] = slot,
                  !.num_connections = @ - 1,
                  !.graveyard = Append(@, Epitaph(c, reason)),
                  !.orphans = IF k > 0 /\ last.process # NULL THEN @ + 1 ELSE @]

\* What send() can answer: it takes up to n of the bytes offered, or fails
\* with WSAEWOULDBLOCK or with another error.
SendOk(n)     == [n |-> n, err |-> "none"]
SendWouldBlock == [n |-> -1, err |-> "wouldblock"]
SendError      == [n |-> -1, err |-> "error"]

\* connection_flush without its memmove: the bytes send() took stay at the
\* head of the send buffer.
connection_flush_keeps_sent(w, idx, sres) ==
    LET c  == Conn(w, idx)
        write_result == IF sres.err = "none" /\ c.sock # INVALID_SOCKET
                           THEN Min(sres.n, c.sendbuf_used) ELSE -1
        c1 == IF c.sendbuf_used > 0 /\ write_result >= 0
                 THEN [c EXCEPT !.sendbuf_used = @ - write_result,
                                !.wire = Cat(@, Take(c.sendbuf, write_result)),
                                !.partial_sends = IF write_result < c.sendbuf_used
                                                     THEN @ + 1 ELSE @]
                 ELSE c
        w1 == SetConn(w, idx, c1)
    IN  IF c.sendbuf_used > 0 /\ write_result < 0
           /\ ~(sres.err = "wouldblock" /\ c.sock # INVALID_SOCKET)
        THEN Ret(connection_close(w, idx, "send_error"), FALSE)
        ELSE IF c1.sendbuf_used = 0 /\ c1.state = CS_CLOSING
        THEN Ret(connection_close(w1, idx, "drained"), FALSE)
        ELSE Ret(w1, TRUE)

\* connection_flush: hand the send buffer to send(), drop what it took, and
\* close the connection once a CS_CLOSING session has nothing left to send.
connection_flush(w, idx, sres) ==
    LET c  == Conn(w, idx)
        write_result == IF sres.err = "none" /\ c.sock # INVALID_SOCKET
                           THEN Min(sres.n, c.sendbuf_used) ELSE -1
        c1 == IF c.sendbuf_used > 0 /\ write_result >= 0
                 THEN [c EXCEPT !.sendbuf = Drop(c.sendbuf, write_result),
                                !.sendbuf_used = @ - write_result,
                                !.wire = Cat(@, Take(c.sendbuf, write_result)),
                                !.partial_sends = IF write_result < c.sendbuf_used
                                                     THEN @ + 1 ELSE @]
                 ELSE c
        w1 == SetConn(w, idx, c1)
    IN  IF c.sendbuf_used > 0 /\ write_result < 0
           /\ ~(sres.err = "wouldblock" /\ c.sock # INVALID_SOCKET)
        THEN Ret(connection_close(w, idx, "send_error"), FALSE)
        ELSE IF c1.sendbuf_used = 0 /\ c1.state = CS_CLOSING
        THEN Ret(connection_close(w1, idx, "drained"), FALSE)
        ELSE Ret(w1, TRUE)

\* connection_write without its test of sendbuf_available.
connection_write_unchecked(w, idx, cmd, payload, sres) ==
    LET c == Conn(w, idx)
        payload_length == BLen(payload)
    IN  connection_flush(
            SetConn(w, idx,
                [c EXCEPT !.sendbuf = Cat(Take(@, c.sendbuf_used), EncodeFrame(cmd, payload)),
                          !.sendbuf_used = @ + HEADER_SIZE + payload_length,
                          !.sent_log = Append(@, <<cmd, payload_length>>)]),
            idx, sres)

\* connection_write: append the frame <<cmd, payload>> to the send buffer,
\* or close the connection when it does not fit; then flush.
connection_write(w, idx, cmd, payload, sres) ==
    LET c == Conn(w, idx)
        payload_length == BLen(payload)
        sendbuf_available == SENDBUF_SIZE - c.sendbuf_used
    IN  IF sendbuf_available < HEADER_SIZE + payload_length
        THEN Ret(connection_close(w, idx, "sendbuf_full"), FALSE)
        ELSE connection_flush(
                 SetConn(w, idx,
                     [c EXCEPT !.sendbuf = Cat(Take(@, c.sendbuf_used), EncodeFrame(cmd, payload)),
                               !.sendbuf_used = @ + HEADER_SIZE + payload_length,
                               !.sent_log = Append(@, <<cmd, payload_length>>)]),
                 idx, sres)

\* ------------------------------------------------------------ pipe and process events
\* The connection's read pipe for an outbound command: 'O' is stdout, 'E' stderr.
PipeOf(c, command) == IF command = CMD_O THEN c.stdout_pipe ELSE c.stderr_pipe
PipeSrc(command)   == IF command = CMD_O THEN "O" ELSE "E"
PipePos(c, command) == IF command = CMD_O THEN c.stdout_pos ELSE c.stderr_pos
PipeArmed(c, command) == IF command = CMD_O THEN c.stdout_armed ELSE c.stderr_armed
SetArmed(c, command, v) ==
    IF command = CMD_O THEN [c EXCEPT !.stdout_armed = v] ELSE [c EXCEPT !.stderr_armed = v]

\* pipe_read, HANDLE_EOF: close the pipe, forget the handle and send an
\* empty frame.
pipe_eof(w, idx, command, sres) ==
    LET c  == Conn(w, idx)
        c1 == IF command = CMD_O
                 THEN [c EXCEPT !.stdout_pipe = NULL, !.stdout_armed = FALSE]
                 ELSE [c EXCEPT !.stderr_pipe = NULL, !.stderr_armed = FALSE]
    IN  connection_write(SetConn(w, idx, c1), idx, command, <<>>, sres)

\* pipe_read, "read next data from pipe in the background": pipe9x_read_initiate
\* answers arm; ERROR_BROKEN_PIPE is end of file, anything but ERROR_IO_PENDING
\* aborts the server.
pipe_rearm(w, idx, command, arm, sres) ==
    IF arm = "pending"
    THEN LET c == Conn(w, idx)
         IN  Ret(SetConn(w, idx, [SetArmed(c, command, TRUE) EXCEPT
                                     !.overlapped = @ \/ PipeArmed(c, command)]), TRUE)
    ELSE IF arm = "broken" THEN pipe_eof(w, idx, command, sres)
    ELSE Abort(w, arm)

\* pipe_read that starts the next read with the completed one still
\* marked outstanding on the handle.
pipe_read_unconsumed(w, idx, command, rres, arm, s1, s2) ==
    LET c    == Conn(w, idx)
        pos  == PipePos(c, command)
        data == IF rres.status = "ok" /\ rres.n > 0
                   THEN <<Run(PipeSrc(command), pos, pos + rres.n)>> ELSE <<>>
        c0   == c
        c1   == IF rres.status # "ok" THEN c0
                ELSE IF command = CMD_O
                THEN [c0 EXCEPT !.stdout_pos = @ + rres.n, !.reads = @ + 1]
                ELSE [c0 EXCEPT !.stderr_pos = @ + rres.n, !.reads = @ + 1]
        w1   == SetConn(w, idx, c1)
    IN  IF rres.status = "ok"
        THEN IF rres.n = 0
             THEN pipe_rearm(w1, idx, command, arm, s1)
             ELSE LET r == connection_write(w1, idx, command, data, s1)
                  IN  IF r.ok THEN pipe_rearm(r.w, idx, command, arm, s2) ELSE r
        ELSE IF rres.status = "broken"
        THEN pipe_eof(w1, idx, command, s1)
        ELSE Ret(connection_close(w1, idx, "pipe_read_error"), FALSE)

\* pipe_read without its case for a completion of zero bytes: the empty
\* read is forwarded as a frame like any other.
pipe_read_forwards_empty(w, idx, command, rres, arm, s1, s2) ==
    LET c    == Conn(w, idx)
        pos  == PipePos(c, command)
        data == IF rres.status = "ok" /\ rres.n > 0
                   THEN <<Run(PipeSrc(command), pos, pos + rres.n)>> ELSE <<>>
        c0   == SetArmed(c, command, FALSE)
        c1   == IF rres.status # "ok" THEN c0
                ELSE IF command = CMD_O
                THEN [c0 EXCEPT !.stdout_pos = @ + rres.n, !.reads = @ + 1]
                ELSE [c0 EXCEPT !.stderr_pos = @ + rres.n, !.reads = @ + 1]
        w1   == SetConn(w, idx, c1)
    IN  IF rres.status = "ok"
        THEN LET r == connection_write(w1, idx, command, data, s1)
             IN  IF r.ok THEN pipe_rearm(r.w, idx, command, arm, s2) ELSE r
        ELSE IF rres.status = "broken"
        THEN pipe_eof(w1, idx, command, s1)
        ELSE Ret(connection_close(w1, idx, "pipe_read_error"), FALSE)

\* pipe_read: consume the completion rres = [status, n] of the read on the
\* pipe of command, forward its bytes as a frame and start the next read.
\* s1 and s2 are the answers of send() in the first and second
\* connection_write of the call.
pipe_read(w, idx, command, rres, arm, s1, s2) ==
    LET c    == Conn(w, idx)
        pos  == PipePos(c, command)
        data == IF rres.status = "ok" /\ rres.n > 0
                   THEN <<Run(PipeSrc(command), pos, pos + rres.n)>> ELSE <<>>
        c0   == SetArmed(c, command, FALSE)
        c1   == IF rres.status # "ok" THEN c0
                ELSE IF command = CMD_O
                THEN [c0 EXCEPT !.stdout_pos = @ + rres.n, !.reads = @ + 1]
                ELSE [c0 EXCEPT !.stderr_pos = @ + rres.n, !.reads = @ + 1]
        w1   == SetConn(w, idx, c1)
    IN  IF rres.status = "ok"
        THEN IF rres.n = 0
             THEN pipe_rearm(w1, idx, command, arm, s1)
             ELSE LET r == connection_write(w1, idx, command, data, s1)
                  IN  IF r.ok THEN pipe_rearm(r.w, idx, command, arm, s2) ELSE r
        ELSE IF rres.status = "broken"
        THEN pipe_eof(w1, idx, command, s1)
        ELSE Ret(connection_close(w1, idx, "pipe_read_error"), FALSE)

\* process_exit: take the exit code, close the process handle, enter
\* CS_CLOSING and send the X frame.
process_exit(w, idx, exit_code, sres) ==
    LET c == Conn(w, idx)
    IN  connection_write(
            SetConn(w, idx, [c EXCEPT !.process = NULL, !.state = CS_CLOSING]),
            idx, CMD_X, LE32(exit_code), sres)

\* main, completion of the write on stdin_pipe: pipe9x_write_result answers
\* wres; an error closes the connection.
stdin_write_done(w, idx, wres) ==
    IF wres # "ok"
    THEN Ret(connection_close(w, idx, "stdin_write_error"), FALSE)
    ELSE Ret(SetConn(w, idx, [Conn(w, idx) EXCEPT !.stdin_pending = FALSE,
                                                  !.writes = @ + 1]), TRUE)

\* ------------------------------------------------------------ inbound frames
\* The result of handling one frame: as above, and whether the frame stalled.
Handled(w)  == [w |-> w, ok |-> TRUE, abort |-> FALSE, stall |-> FALSE]
Stalled(w)  == [w |-> w, ok |-> TRUE, abort |-> FALSE, stall |-> TRUE]
Closed(w)   == [w |-> w, ok |-> FALSE, abort |-> FALSE, stall |-> FALSE]
Crashed(w)  == [w |-> w, ok |-> FALSE, abort |-> TRUE, stall |-> FALSE, answer |-> "none"]
Aborted(w, answer) ==
    [w |-> w, ok |-> FALSE, abort |-> TRUE, stall |-> FALSE, answer |-> answer]

\* store_string for the field a command names; malloc fails under the
\* oracle "alloc_fail" and the connection is closed.
frame_string(w, idx, command, payload, orc) ==
    LET c  == Conn(w, idx)
        v  == IF orc = "alloc_fail" THEN NULL_STR ELSE <<payload>>
        c1 == IF command = CMD_A THEN [c EXCEPT !.application_path = v]
              ELSE IF command = CMD_C THEN [c EXCEPT !.command_line = v]
              ELSE [c EXCEPT !.working_directory = v]
        w1 == SetConn(w, idx, c1)
    IN  IF orc = "alloc_fail" THEN Closed(connection_close(w1, idx, "alloc_failed"))
        ELSE Handled(w1)

\* case 'E': three pipe9x_create calls, the use of application_path,
\* CreateProcess and the first pipe9x_read_initiate on stdout and stderr.
\* The oracle names the call that fails, if any.  application_path is
\* passed to fprintf("%s") and strchr without a null check: with a null
\* pointer the server crashes, or survives (oracle "null_survives") and
\* goes on to CreateProcess.  A process handle already stored is
\* overwritten: that child keeps running with no handle left to it.
frame_execute(w, idx, orc) ==
    LET c   == Conn(w, idx)
        gen == c.spawns + 1
        c1  == [c EXCEPT !.process = gen, !.stdin_pipe = gen,
                         !.stdout_pipe = gen, !.stderr_pipe = gen,
                         !.spawns = gen, !.stdin_pending = FALSE,
                         !.stdout_armed = TRUE, !.stderr_armed = TRUE]
        w1  == [SetConn(w, idx, c1) EXCEPT
                   !.orphans = IF c.process # NULL THEN @ + 1 ELSE @]
    IN  IF orc \in {"pipe1_fail", "pipe2_fail", "pipe3_fail"}
        THEN Closed(connection_close(w, idx, "pipe_create_failed"))
        ELSE IF c.application_path = NULL_STR /\ orc # "null_survives"
        THEN Crashed(w)
        ELSE IF orc = "spawn_fail"
        THEN Closed(connection_close(w, idx, "spawn_failed"))
        ELSE IF orc = "arm_broken" THEN Aborted(w1, "broken")
        ELSE IF orc = "arm_other" THEN Aborted(w1, "other")
        ELSE Handled(w1)

\* case 'I' without the test of pipe9x_write_pending: a payload is written
\* to stdin_pipe whether or not a write is in flight.
frame_stdin_never_stalls(w, idx, payload, orc) ==
    LET c == Conn(w, idx)
    IN  IF BLen(payload) = 0
        THEN IF c.stdin_pipe = NULL /\ orc # "close_null_returns"
             THEN Crashed(w)
             ELSE Handled(SetConn(w, idx, [c EXCEPT !.stdin_pipe = NULL,
                                                    !.stdin_pending = FALSE]))
        ELSE IF c.stdin_pipe # NULL
        THEN IF orc = "write_error"
             THEN Closed(connection_close(w, idx, "stdin_write_error"))
             ELSE Handled(SetConn(w, idx, [c EXCEPT !.stdin_pending = TRUE,
                                                    !.overlapped = @ \/ c.stdin_pending,
                                                    !.stdin_log = Cat(@, payload),
                                                    !.stdin_stalled = FALSE,
                                                    !.stdin_retries =
                                                        IF c.stdin_stalled THEN @ + 1 ELSE @]))
        ELSE Handled(w)

\* case 'I': an empty payload closes stdin_pipe; other payloads are written
\* to it unless a write is pending (stall) or the pipe is gone (dropped).
\* pipe9x_write_close(NULL) crashes the server, or returns (oracle
\* "close_null_returns").
frame_stdin(w, idx, payload, orc) ==
    LET c == Conn(w, idx)
    IN  IF BLen(payload) = 0
        THEN IF c.stdin_pipe = NULL /\ orc # "close_null_returns"
             THEN Crashed(w)
             ELSE Handled(SetConn(w, idx, [c EXCEPT !.stdin_pipe = NULL,
                                                    !.stdin_pending = FALSE]))
        ELSE IF c.stdin_pipe # NULL
        THEN IF c.stdin_pending
             THEN Stalled(SetConn(w, idx, [c EXCEPT !.stdin_stalled = TRUE]))
             ELSE IF orc = "write_error"
             THEN Closed(connection_close(w, idx, "stdin_write_error"))
             ELSE Handled(SetConn(w, idx, [c EXCEPT !.stdin_pending = TRUE,
                                                    !.overlapped = @ \/ c.stdin_pending,
                                                    !.stdin_log = Cat(@, payload),
                                                    !.stdin_stalled = FALSE,
                                                    !.stdin_retries =
                                                        IF c.stdin_stalled THEN @ + 1 ELSE @]))
        ELSE Handled(w)

\* The command bytes the switch on header->command has a case for.
KnownCommands == {CMD_A, CMD_C, CMD_W, CMD_E, CMD_I}

\* The switch without its default case: a frame of any other command is
\* skipped.
dispatch_frame_skips_unknown(w, idx, command, payload, orc) ==
    IF command \in {CMD_A, CMD_C, CMD_W} THEN frame_string(w, idx, command, payload, orc)
    ELSE IF command = CMD_E THEN frame_execute(w, idx, orc)
    ELSE IF command = CMD_I THEN frame_stdin(w, idx, payload, orc)
    ELSE Handled(w)

\* The switch on header->command.
dispatch_frame(w, idx, command, payload, orc) ==
    IF command \in {CMD_A, CMD_C, CMD_W} THEN frame_string(w, idx, command, payload, orc)
    ELSE IF command = CMD_E THEN frame_execute(w, idx, orc)
    ELSE IF command = CMD_I THEN frame_stdin(w, idx, payload, orc)
    ELSE Closed(connection_close(w, idx, "bad_command"))

\* The drain with the header size for the frame length.
drain_frame_header_only(w, idx, total_length) ==
    SetConn(w, idx, [Conn(w, idx) EXCEPT !.recvbuf = Memmove(@, HEADER_SIZE, Conn(w, idx).recvbuf_used),
                                         !.recvbuf_used = @ - HEADER_SIZE])

\* memmove(recvbuf, recvbuf + total_length, recvbuf_used - total_length).
drain_frame(w, idx, total_length) ==
    SetConn(w, idx, [Conn(w, idx) EXCEPT !.recvbuf = Memmove(@, total_length, Conn(w, idx).recvbuf_used),
                                         !.recvbuf_used = @ - total_length])

RECURSIVE parse_frames(_, _, _)
\* connection_read, the while loop: handle every complete frame at the head
\* of the receive buffer until one stalls or closes the connection.
parse_frames(w, idx, orc) ==
    LET c == Conn(w, idx)
        payload_length == HeaderLength(c.recvbuf)
        total_length   == HEADER_SIZE + payload_length
    IN  IF c.recvbuf_used < HEADER_SIZE THEN Ret(w, TRUE)
        ELSE IF c.recvbuf_used < total_length THEN Ret(w, TRUE)
        ELSE LET payload == Take(Drop(c.recvbuf, HEADER_SIZE), payload_length)
                 r == dispatch_frame(w, idx, HeaderCommand(c.recvbuf), payload, orc)
             IN  IF r.abort THEN Abort(r.w, r.answer)
                 ELSE IF ~r.ok THEN Ret(r.w, FALSE)
                 ELSE IF r.stall THEN Ret(r.w, TRUE)
                 ELSE parse_frames(drain_frame(r.w, idx, total_length), idx, orc)

\* connection_read: recv into the spare part of the receive buffer, then
\* parse.  rcv is what recv answers: kind "data" with the bytes stored and
\* the client's side after it, or "wouldblock", "eof", "error".
connection_read(w, idx, rcv, orc) ==
    LET c == Conn(w, idx)
    IN  IF c.recvbuf_used = RECVBUF_SIZE THEN Ret(w, TRUE)
        ELSE IF rcv.kind = "wouldblock" THEN Ret(w, TRUE)
        ELSE IF rcv.kind = "eof" THEN Ret(connection_close(w, idx, "recv_eof"), FALSE)
        ELSE IF rcv.kind = "error" THEN Ret(connection_close(w, idx, "recv_error"), FALSE)
        ELSE parse_frames(
                 SetConn(w, idx,
                     [c EXCEPT !.recvbuf = StoreAt(@, c.recvbuf_used, rcv.bytes),
                               !.recvbuf_used = @ + BLen(rcv.bytes),
                               !.net_in = rcv.net_in,
                               !.frames_in = rcv.frames_in,
                               !.bad_in = rcv.bad_in,
                               !.bytes_in = @ + BLen(rcv.bytes),
                               !.in_pos = rcv.in_pos,
                               !.in_eof = rcv.in_eof]),
                 idx, orc)

\* ------------------------------------------------------------ environment
\* An environment e names what the outside world may do in one scenario:
\*   client        which frames the client sends (Ice9rFrames, PeerFrames)
\*   max_frames    how many
\*   recv_chunks   sizes of partial recv results, besides "all there is"
\*   send_chunks   sizes of partial send results, besides "all offered"
\*   stdout_sizes, stderr_sizes   byte counts of read completions
\*   max_reads     read completions with status Ok per session
\*   max_writes    stdin writes whose bytes the child takes
\*   sessions      connections the scenario follows (clients that connect)
\*   may_drop      the sockets, numbered in the order of accept, up to which
\*                 recv may fail or report the end of the stream
\*   null_survives whether the server may survive strchr(NULL, ...) (reading
\*                 address 0 faults on the platform: FALSE unless a scenario
\*                 is about that call)

\* The answers of send() to connection c: an error, nothing, everything, or
\* a part.
SendAnswers(e, c) ==
    {SendWouldBlock, SendError, SendOk(SENDBUF_SIZE)}
    \cup (IF c.partial_sends < MaxPartialSends
          THEN {SendOk(n) : n \in e.send_chunks} ELSE {})

\* The completions of a pipe read (pipe9x_read_result) on the pipe of command.
ReadResults(e, c, command) ==
    (IF c.reads < e.max_reads
     THEN {[status |-> "ok", n |-> n] :
              n \in (IF command = CMD_O THEN e.stdout_sizes ELSE e.stderr_sizes)}
     ELSE {})
    \cup {[status |-> "broken", n |-> 0], [status |-> "error", n |-> 0]}

\* The completions of a write on stdin_pipe (pipe9x_write_result): the
\* child takes the bytes of max_writes writes and then reads no more, so
\* that a later write stays in flight; an error is possible while the
\* child reads.
WriteResults(e, c) ==
    IF c.writes < e.max_writes THEN {"ok", "error"} ELSE {}

\* The answers of pipe9x_read_initiate.
ArmResults == {"pending", "broken", "other"}

\* Exit codes a child returns.
ExitCodes == {7}

\* Frames a client sends.  Stdin data is taken from the client's data
\* source at its current position.
FrameA     == EncodeFrame(CMD_A, Lit(97))
FrameC     == EncodeFrame(CMD_C, Lit(99))
FrameW     == EncodeFrame(CMD_W, Lit(119))
FrameE     == EncodeFrame(CMD_E, <<>>)
FrameBad   == EncodeFrame(CMD_BAD, <<>>)
FrameI(c, n) == EncodeFrame(CMD_I, IF n = 0 THEN <<>> ELSE <<Run("I", c.in_pos, c.in_pos + n)>>)

\* A frame of a string command whose payload is n bytes of the client's
\* data from position lo.
FrameS(cmd, lo, n) == EncodeFrame(cmd, IF n = 0 THEN <<>> ELSE <<Run("S", lo, lo + n)>>)

\* Payload lengths of the first frame of a burst.
BurstLengths == {0, 1, LongPayload}

\* Two frames sent back to back; the second is short.
Bursts ==
    {Cat(FrameS(c1, 0, n1), FrameS(c2, n1, n2)) :
        <<c1, n1, c2, n2>> \in {CMD_A, CMD_W} \X BurstLengths \X {CMD_A, CMD_W} \X {0, 1}}

\* The frames ice9r.c may send next: A, C, E, then one I frame for each
\* read() of its stdin, of the bytes read (at most STDIN_CHUNK), until a
\* read returns 0: that I frame is empty and the last one.
\*   "run":   its stdin stays open and silent;
\*   "stdin": its stdin gives single bytes, then ends;
\*   "feed":  its stdin never ends and fills every read.
Ice9rFrames(e, c) ==
    IF c.frames_in = 0 THEN {FrameA}
    ELSE IF c.frames_in = 1 THEN {FrameC}
    ELSE IF c.frames_in = 2 THEN {FrameE}
    ELSE IF e.client = "stdin" /\ ~c.in_eof THEN {FrameI(c, 0), FrameI(c, 1)}
    ELSE IF e.client = "feed" THEN {FrameI(c, STDIN_CHUNK)}
    ELSE {}

\* The frames another peer of the port may send next: any header the
\* server's struct MessageHeader can hold.
\*   "any":   a string, an execute, stdin data, end of stdin, or a byte
\*            that is no command, at any time;
\*   "bulk":  A, C, E, then stdin data in frames of the largest payload;
\*   "burst": two frames of A or W at a time, of any payload length.
PeerFrames(e, c) ==
    IF e.client = "any"
    THEN {FrameA, FrameC, FrameE, FrameI(c, 0), FrameI(c, 1), FrameBad}
    ELSE IF e.client = "burst" THEN Bursts
    ELSE IF c.frames_in = 0 THEN {FrameA}
    ELSE IF c.frames_in = 1 THEN {FrameC}
    ELSE IF c.frames_in = 2 THEN {FrameE}
    ELSE {FrameI(c, MAX_PAYLOAD)}

\* The frames the client of a scenario may send next.
ClientFrames(e, c) ==
    IF e.client \in {"run", "stdin", "feed"} THEN Ice9rFrames(e, c) ELSE PeerFrames(e, c)

\* Stdin data bytes in an encoded frame.
DataBytes(frame) ==
    IF HeaderCommand(frame) = CMD_I THEN HeaderLength(frame) ELSE 0

\* recv returns n bytes of stream, the bytes in flight from the client.
RecvData(c, stream, n, newframe) ==
    [ kind |-> "data", bytes |-> Take(stream, n), net_in |-> Drop(stream, n),
      frames_in |-> IF newframe THEN c.frames_in + 1 ELSE c.frames_in,
      bad_in |-> IF newframe /\ HeaderCommand(stream) \notin KnownCommands
                    THEN c.bad_in + 1 ELSE c.bad_in,
      in_pos |-> IF newframe THEN c.in_pos + DataBytes(stream) ELSE c.in_pos,
      in_eof |-> c.in_eof \/ (newframe /\ HeaderCommand(stream) = CMD_I
                                       /\ HeaderLength(stream) = 0) ]

RecvFail(kind) == [kind |-> kind]

\* Byte counts recv can return when avail bytes are in flight.
RecvSizes(e, c, avail) ==
    LET m == Min(avail, RECVBUF_SIZE - c.recvbuf_used)
    IN  {Min(n, m) : n \in e.recv_chunks \cup {m}} \ {0}

\* The answers of recv(): an error, end of stream, nothing yet, or bytes of
\* the frame in flight; when none is in flight the client may send its next
\* frame.
RecvAnswers(e, c) ==
    IF c.sock = INVALID_SOCKET THEN {RecvFail("error")}
    ELSE IF c.recvbuf_used = RECVBUF_SIZE THEN {RecvFail("wouldblock")}
    ELSE {RecvFail("wouldblock")}
         \cup (IF c.sock <= e.may_drop THEN {RecvFail("eof"), RecvFail("error")} ELSE {})
         \cup (IF c.net_in # <<>>
               THEN {RecvData(c, c.net_in, n, FALSE) : n \in RecvSizes(e, c, BLen(c.net_in))}
               ELSE IF c.frames_in < e.max_frames
               THEN UNION {{RecvData(c, f, n, TRUE) : n \in RecvSizes(e, c, BLen(f))}
                           : f \in ClientFrames(e, c)}
               ELSE {})

RECURSIVE FrameCommands(_, _)
\* The commands of the complete frames at the head of a buffer of used bytes.
FrameCommands(buf, used) ==
    IF used < HEADER_SIZE \/ used < HEADER_SIZE + HeaderLength(buf) THEN {}
    ELSE {HeaderCommand(buf)}
         \cup FrameCommands(Drop(buf, HEADER_SIZE + HeaderLength(buf)),
                            used - HEADER_SIZE - HeaderLength(buf))

\* What can go wrong in the calls made while frames are handled: each
\* oracle but "fine" makes one kind of call fail ("null_survives": the use
\* of a null application_path does not crash, where e allows for it;
\* "close_null_returns": pipe9x_write_close(NULL) returns).  CreateProcess
\* succeeds at most MaxSpawns times for connection c.
OraclesFor(e, c, commands) ==
    (IF CMD_E \in commands /\ c.spawns >= MaxSpawns THEN {} ELSE {"fine"})
    \cup (IF commands \cap {CMD_A, CMD_C, CMD_W} # {} THEN {"alloc_fail"} ELSE {})
    \cup (IF CMD_E \in commands
          THEN {"pipe1_fail", "pipe2_fail", "pipe3_fail", "spawn_fail"}
               \cup (IF c.spawns < MaxSpawns THEN {"arm_broken", "arm_other"} ELSE {})
          ELSE {})
    \cup (IF CMD_I \in commands THEN {"write_error", "close_null_returns"} ELSE {})
    \cup (IF CMD_E \in commands /\ c.spawns < MaxSpawns /\ e.null_survives
          THEN {"null_survives"} ELSE {})

\* The oracles for a connection_read that receives rcv.
ReadOracles(e, c, rcv) ==
    IF rcv.kind # "data" THEN {"fine"}
    ELSE OraclesFor(e, c, FrameCommands(Cat(Take(c.recvbuf, c.recvbuf_used), rcv.bytes),
                                        c.recvbuf_used + BLen(rcv.bytes)))

\* Any client, a child that writes little.
EnvProtocol ==
    [ client |-> "any", max_frames |-> MaxFrames,
      recv_chunks |-> {HEADER_SIZE}, send_chunks |-> {},
      stdout_sizes |-> {1}, stderr_sizes |-> {}, max_reads |-> MaxSmallReads,
      max_writes |-> MaxFrames,
      null_survives |-> FALSE, sessions |-> 1, may_drop |-> 1 ]

\* The client of ice9r.c: it starts a child and feeds its stdin; the child
\* writes nothing.
EnvStdin ==
    [ client |-> "stdin", max_frames |-> 3 + MaxStdinFrames,
      recv_chunks |-> {}, send_chunks |-> {},
      stdout_sizes |-> {}, stderr_sizes |-> {}, max_reads |-> 0,
      max_writes |-> 3 + MaxStdinFrames,
      null_survives |-> FALSE, sessions |-> 1, may_drop |-> 1 ]

\* A client that starts a child and sends nothing more; the child floods
\* stdout.  A partial send takes 13 bytes: it ends inside a payload, or
\* inside a header when short frames come first.
EnvFlow ==
    [ client |-> "run", max_frames |-> 3,
      recv_chunks |-> {}, send_chunks |-> {4 * HEADER_SIZE + 1},
      stdout_sizes |-> {0, PIPE_READ_SIZE}, stderr_sizes |-> {1}, max_reads |-> MaxReads,
      max_writes |-> 3,
      null_survives |-> FALSE, sessions |-> 1, may_drop |-> 1 ]

\* Several clients of ice9r.c with their stdin left open, each starting a
\* child that writes nothing.
EnvTable ==
    [ client |-> "run", max_frames |-> 3,
      recv_chunks |-> {}, send_chunks |-> {},
      stdout_sizes |-> {}, stderr_sizes |-> {}, max_reads |-> 0,
      max_writes |-> 3,
      null_survives |-> FALSE, sessions |-> MaxSessions, may_drop |-> MaxSessions ]

\* One client more than the table holds; the clients connect and send
\* nothing; the first MaxDrops of them may disconnect.
EnvAccept ==
    [ client |-> "run", max_frames |-> 0,
      recv_chunks |-> {}, send_chunks |-> {},
      stdout_sizes |-> {}, stderr_sizes |-> {}, max_reads |-> 0,
      max_writes |-> 0,
      null_survives |-> FALSE, sessions |-> MAX_CONNECTIONS + 1, may_drop |-> MaxDrops ]

\* A client that starts a child and feeds its stdin in frames of the
\* largest payload, while the child floods stdout; neither side hangs up.
EnvBounds ==
    [ client |-> "bulk", max_frames |-> 3 + MaxBulkFrames,
      recv_chunks |-> {}, send_chunks |-> {4 * HEADER_SIZE + 1},
      stdout_sizes |-> {PIPE_READ_SIZE}, stderr_sizes |-> {}, max_reads |-> MaxReads,
      max_writes |-> 3 + MaxBulkFrames,
      null_survives |-> FALSE, sessions |-> 1, may_drop |-> 0 ]

\* A client that sends its frames two at a time, to a socket that hands
\* them over in pieces of any size: a part of a header, a header, a header
\* and a part of the payload, a frame, a frame and a part of the next.
EnvFrames ==
    [ client |-> "burst", max_frames |-> MaxBursts,
      recv_chunks |-> {1, HEADER_SIZE - 1, HEADER_SIZE, HEADER_SIZE + 1,
                       HEADER_SIZE + LongPayload, HEADER_SIZE + LongPayload + 1},
      send_chunks |-> {},
      stdout_sizes |-> {}, stderr_sizes |-> {}, max_reads |-> 0,
      max_writes |-> MaxBursts,
      null_survives |-> FALSE, sessions |-> 1, may_drop |-> 0 ]

\* A client of ice9r.c whose stdin never ends; the child takes the bytes
\* of one write, then neither reads nor writes and does not exit; neither
\* side hangs up.
EnvStall ==
    [ client |-> "feed", max_frames |-> 3 + MaxFeedFrames,
      recv_chunks |-> {}, send_chunks |-> {},
      stdout_sizes |-> {}, stderr_sizes |-> {}, max_reads |-> 0,
      max_writes |-> 1,
      null_survives |-> FALSE, sessions |-> 1, may_drop |-> 0 ]

\* Any client, on a build where the use of a null application_path may
\* crash the server or may go unnoticed.
EnvNull ==
    [ client |-> "any", max_frames |-> MaxFrames,
      recv_chunks |-> {}, send_chunks |-> {},
      stdout_sizes |-> {}, stderr_sizes |-> {}, max_reads |-> 0,
      max_writes |-> MaxFrames,
      null_survives |-> TRUE, sessions |-> 1, may_drop |-> 0 ]

\* ------------------------------------------------------------ the event loop
VARIABLES
    connections,          \* the live slots of connections[], in order
    num_connections,
    next_connection_id,
    graveyard,            \* the connections closed so far
    orphans,              \* children running with no handle in any session
    accepted,             \* sockets accept() has returned so far
    pc,                   \* "wait": at WaitForMultipleObjects; "sock": in the
                          \* loop over the connections after the socket event;
                          \* "abort": the server has aborted or crashed
    scan_i,               \* the index i of that loop
    abort_answer          \* what pipe9x_read_initiate had answered when the
                          \* server called abort(); "none" before, and after
                          \* a crash

vars == <<connections, num_connections, next_connection_id, graveyard, orphans,
          accepted, pc, scan_i, abort_answer>>

World ==
    [ connections |-> connections, num_connections |-> num_connections,
      next_connection_id |-> next_connection_id, graveyard |-> graveyard,
      orphans |-> orphans ]

\* The globals after a handler, and where the loop goes on.
Becomes(r, next_pc) ==
    /\ connections' = r.w.connections
    /\ num_connections' = r.w.num_connections
    /\ next_connection_id' = r.w.next_connection_id
    /\ graveyard' = r.w.graveyard
    /\ orphans' = r.w.orphans
    /\ abort_answer' = IF r.abort THEN r.answer ELSE abort_answer
    /\ pc' = IF r.abort THEN "abort" ELSE next_pc

Init ==
    /\ connections = <<>>
    /\ num_connections = 0
    /\ next_connection_id = 1
    /\ graveyard = <<>>
    /\ orphans = 0
    /\ accepted = 0
    /\ pc = "wait"
    /\ scan_i = 0
    /\ abort_answer = "none"

\* main, wait-set assembly: the gates under which a handle of connection
\* idx is waited on.
sendbuf_available(c) == SENDBUF_SIZE - c.sendbuf_used
recvbuf_available(c) == RECVBUF_SIZE - c.recvbuf_used

\* The gate of a read event without its test of the send buffer.
WaitsOnPipe_ungated(c, command) ==
    PipeOf(c, command) # NULL

WaitsOnPipe(c, command) ==
    /\ sendbuf_available(c) >= HEADER_SIZE + PIPE_READ_SIZE
    /\ PipeOf(c, command) # NULL

\* The gate of the process handle without its two pipe conditions.
WaitsOnProcess_ungated(c) ==
    /\ sendbuf_available(c) >= HEADER_SIZE + EXIT_CODE_SIZE
    /\ c.process # NULL

WaitsOnProcess(c) ==
    /\ sendbuf_available(c) >= HEADER_SIZE + EXIT_CODE_SIZE
    /\ c.stdout_pipe = NULL
    /\ c.stderr_pipe = NULL
    /\ c.process # NULL

WaitsOnStdin(c) == c.stdin_pipe # NULL /\ c.stdin_pending

\* The handles of connection c with the process handle added whenever the
\* child is present, whatever the state of the output pipes.
wait_handles_process_always(c) ==
    (IF WaitsOnPipe(c, CMD_O) THEN <<"stdout">> ELSE <<>>)
    \o (IF WaitsOnPipe(c, CMD_E) THEN <<"stderr">> ELSE <<>>)
    \o (IF c.process # NULL THEN <<"process">> ELSE <<>>)
    \o (IF WaitsOnStdin(c) THEN <<"stdin">> ELSE <<>>)

\* The handles connection c adds to wait_handles[], in the order of the
\* code: the read events of stdout and stderr, the process, the write event
\* of stdin.
wait_handles(c) ==
    (IF WaitsOnPipe(c, CMD_O) THEN <<"stdout">> ELSE <<>>)
    \o (IF WaitsOnPipe(c, CMD_E) THEN <<"stderr">> ELSE <<>>)
    \o (IF WaitsOnProcess(c) THEN <<"process">> ELSE <<>>)
    \o (IF WaitsOnStdin(c) THEN <<"stdin">> ELSE <<>>)

\* handle is among the handles of c in the wait set.
Waited(c, handle) == \E p \in 1..Len(wait_handles(c)) : wait_handles(c)[p] = handle

\* num_wait_handles after the loop over the first n slots of the table:
\* wsevent in wait_handles[0], then the handles of each connection.
RECURSIVE num_wait_handles(_, _)
num_wait_handles(conns, n) ==
    IF n = 0 THEN 1
    ELSE num_wait_handles(conns, n - 1) + Len(wait_handles(conns[n]))

\* The number of elements of HANDLE wait_handles[1 + MAX_CONNECTIONS * 3].
WaitCapacity == 1 + MAX_CONNECTIONS * 3

\* The socket event fires with one connection to accept.
AcceptEvent(e) ==
    /\ pc = "wait"
    /\ accepted < e.sessions
    /\ accepted' = accepted + 1
    /\ scan_i' = 0
    /\ Becomes(Ret(connection_init(World, accepted + 1), TRUE), "sock")

\* The socket event fires with nothing to accept.
SocketEvent ==
    /\ pc = "wait"
    /\ num_connections > 0
    /\ pc' = "sock"
    /\ scan_i' = 0
    /\ UNCHANGED <<connections, num_connections, next_connection_id, graveyard,
                   orphans, accepted, abort_answer>>

\* One turn of the loop after the socket event:
\*   if(connection_flush(i) && connection_read(i)) ++i;
SocketStep(e) ==
    /\ pc = "sock"
    /\ scan_i < num_connections
    /\ \E sres \in (IF Conn(World, scan_i).sendbuf_used > 0
                       THEN SendAnswers(e, Conn(World, scan_i)) ELSE {SendWouldBlock}) :
          LET f == connection_flush(World, scan_i, sres)
          IN  IF ~f.ok
              THEN Becomes(f, "sock") /\ scan_i' = scan_i
              ELSE \E rcv \in RecvAnswers(e, Conn(f.w, scan_i)) :
                   \E orc \in ReadOracles(e, Conn(f.w, scan_i), rcv) :
                      LET r == connection_read(f.w, scan_i, rcv, orc)
                      IN  /\ Becomes(r, "sock")
                          /\ scan_i' = IF r.ok THEN scan_i + 1 ELSE scan_i
    /\ UNCHANGED accepted

\* The loop after the socket event is over: back to the wait.
SocketDone ==
    /\ pc = "sock"
    /\ scan_i >= num_connections
    /\ pc' = "wait"
    /\ UNCHANGED <<connections, num_connections, next_connection_id, graveyard,
                   orphans, accepted, scan_i, abort_answer>>

\* The read event of the stdout ('O') or stderr ('E') pipe of connection idx
\* wakes the wait: pipe_read.  The answers of the calls pipe_read makes are
\* drawn only for the calls it does make.
PipeReadEvent(e, idx, command) ==
    /\ pc = "wait"
    /\ WaitsOnPipe(Conn(World, idx), command)
    /\ PipeArmed(Conn(World, idx), command)
    /\ \E rres \in ReadResults(e, Conn(World, idx), command) :
       \E arm \in (IF rres.status = "ok" THEN ArmResults ELSE {"pending"}) :
       \E s1 \in (IF rres.status = "error" \/ (rres.status = "ok" /\ rres.n = 0 /\ arm # "broken")
                     THEN {SendWouldBlock} ELSE SendAnswers(e, Conn(World, idx))) :
       \E s2 \in (IF rres.status = "ok" /\ rres.n > 0 /\ arm = "broken"
                     THEN SendAnswers(e, Conn(World, idx)) ELSE {SendWouldBlock}) :
          Becomes(pipe_read(World, idx, command, rres, arm, s1, s2), "wait")
    /\ UNCHANGED <<accepted, scan_i>>

\* The write event of stdin_pipe wakes the wait.
StdinWriteEvent(e, idx) ==
    /\ pc = "wait"
    /\ WaitsOnStdin(Conn(World, idx))
    /\ \E wres \in WriteResults(e, Conn(World, idx)) :
          Becomes(stdin_write_done(World, idx, wres), "wait")
    /\ UNCHANGED <<accepted, scan_i>>

\* The process handle wakes the wait: the child has exited.
ProcessExitEvent(e, idx) ==
    /\ pc = "wait"
    /\ WaitsOnProcess(Conn(World, idx))
    /\ \E exit_code \in ExitCodes, sres \in SendAnswers(e, Conn(World, idx)) :
          Becomes(process_exit(World, idx, exit_code, sres), "wait")
    /\ UNCHANGED <<accepted, scan_i>>

Sessions == 0..(num_connections - 1)

\* The life of one connection, from accept to close, with any client.
Next ==
    \/ AcceptEvent(EnvProtocol)
    \/ SocketEvent
    \/ SocketStep(EnvProtocol)
    \/ SocketDone
    \/ \E idx \in Sessions : PipeReadEvent(EnvProtocol, idx, CMD_O)
    \/ \E idx \in Sessions : PipeReadEvent(EnvProtocol, idx, CMD_E)
    \/ \E idx \in Sessions : StdinWriteEvent(EnvProtocol, idx)
    \/ \E idx \in Sessions : ProcessExitEvent(EnvProtocol, idx)

Spec == Init /\ [][Next]_vars

\* The life of one connection whose child floods stdout.
NextFlow ==
    \/ AcceptEvent(EnvFlow)
    \/ SocketEvent
    \/ SocketStep(EnvFlow)
    \/ SocketDone
    \/ \E idx \in Sessions : PipeReadEvent(EnvFlow, idx, CMD_O)
    \/ \E idx \in Sessions : PipeReadEvent(EnvFlow, idx, CMD_E)
    \/ \E idx \in Sessions : ProcessExitEvent(EnvFlow, idx)

SpecFlow == Init /\ [][NextFlow]_vars

\* The life of one connection whose client feeds the stdin of its child.
NextStdin ==
    \/ AcceptEvent(EnvStdin)
    \/ SocketEvent
    \/ SocketStep(EnvStdin)
    \/ SocketDone
    \/ \E idx \in Sessions : PipeReadEvent(EnvStdin, idx, CMD_O)
    \/ \E idx \in Sessions : PipeReadEvent(EnvStdin, idx, CMD_E)
    \/ \E idx \in Sessions : StdinWriteEvent(EnvStdin, idx)
    \/ \E idx \in Sessions : ProcessExitEvent(EnvStdin, idx)

SpecStdin == Init /\ [][NextStdin]_vars

\* The same under a fair event loop: the loop does not stop while it has a
\* step to take.
SpecStdinFair == SpecStdin /\ WF_vars(NextStdin)

\* The lives of several connections that share the connection table.
NextTable ==
    \/ AcceptEvent(EnvTable)
    \/ SocketEvent
    \/ SocketStep(EnvTable)
    \/ SocketDone
    \/ \E idx \in Sessions : PipeReadEvent(EnvTable, idx, CMD_O)
    \/ \E idx \in Sessions : PipeReadEvent(EnvTable, idx, CMD_E)
    \/ \E idx \in Sessions : ProcessExitEvent(EnvTable, idx)

SpecTable == Init /\ [][NextTable]_vars

\* Clients that connect until the table is full, and one more.
NextAccept ==
    \/ AcceptEvent(EnvAccept)
    \/ SocketEvent
    \/ SocketStep(EnvAccept)
    \/ SocketDone

SpecAccept == Init /\ [][NextAccept]_vars

\* The life of one connection whose client and child both send in bulk.
NextBounds ==
    \/ AcceptEvent(EnvBounds)
    \/ SocketEvent
    \/ SocketStep(EnvBounds)
    \/ SocketDone
    \/ \E idx \in Sessions : PipeReadEvent(EnvBounds, idx, CMD_O)
    \/ \E idx \in Sessions : PipeReadEvent(EnvBounds, idx, CMD_E)
    \/ \E idx \in Sessions : StdinWriteEvent(EnvBounds, idx)
    \/ \E idx \in Sessions : ProcessExitEvent(EnvBounds, idx)

SpecBounds == Init /\ [][NextBounds]_vars

\* The life of one connection whose client sends stdin data in bulk to a
\* child that writes nothing.
NextStall ==
    \/ AcceptEvent(EnvStall)
    \/ SocketEvent
    \/ SocketStep(EnvStall)
    \/ SocketDone
    \/ \E idx \in Sessions : StdinWriteEvent(EnvStall, idx)

SpecStall == Init /\ [][NextStall]_vars

\* The same under a fair event loop.
SpecStallFair == SpecStall /\ WF_vars(NextStall)

\* The life of one connection that receives frames in pieces.
NextFrames ==
    \/ AcceptEvent(EnvFrames)
    \/ SocketEvent
    \/ SocketStep(EnvFrames)
    \/ SocketDone

SpecFrames == Init /\ [][NextFrames]_vars

\* The life of one connection whose client may ask for a child before it
\* has named the program.
NextNull ==
    \/ AcceptEvent(EnvNull)
    \/ SocketEvent
    \/ SocketStep(EnvNull)
    \/ SocketDone
    \/ \E idx \in Sessions : PipeReadEvent(EnvNull, idx, CMD_O)
    \/ \E idx \in Sessions : PipeReadEvent(EnvNull, idx, CMD_E)
    \/ \E idx \in Sessions : StdinWriteEvent(EnvNull, idx)
    \/ \E idx \in Sessions : ProcessExitEvent(EnvNull, idx)

SpecNull == Init /\ [][NextNull]_vars

\* ------------------------------------------------------------ properties
\* The live connections.
Live == {connections[j] : j \in 1..num_connections}

\* The frame logs of all connections, live and closed.
Logs == {c.sent_log : c \in Live} \cup {graveyard[j].sent_log : j \in 1..Len(graveyard)}

\* The bytes of the frames log[p+1..] take in a send buffer.
RECURSIVE LogBytes(_, _)
LogBytes(log, p) ==
    IF p >= Len(log) THEN 0 ELSE HEADER_SIZE + log[p + 1][2] + LogBytes(log, p + 1)

\* The positions of the X frames of a log.
XPositions(log) == {p \in 1..Len(log) : log[p][1] = CMD_X}

\* Some byte of an X frame is among the last `used` bytes of the frames of log.
XUnsent(log, used) == \E p \in XPositions(log) : used > LogBytes(log, p)

\* The log of the connection that is connections[idx + 1] now, after the step.
LogAfter(idx) ==
    LET c == connections[idx + 1]
    IN  IF Len(graveyard') > Len(graveyard) /\ graveyard'[Len(graveyard')].id = c.id
        THEN graveyard'[Len(graveyard')].sent_log
        ELSE IF idx < num_connections' /\ connections'[idx + 1].id = c.id
        THEN connections'[idx + 1].sent_log
        ELSE c.sent_log

\* The step appends an X frame to the log of connection idx.
AppendsX(idx) ==
    LET old == connections[idx + 1].sent_log
        new == LogAfter(idx)
    IN  Len(new) > Len(old) /\ \E p \in (Len(old) + 1)..Len(new) : new[p][1] = CMD_X

\* <<command, 0>> is in log after the last X frame before position p.
EofSinceX(log, p, command) ==
    \E q \in 1..(p - 1) :
        /\ log[q] = <<command, 0>>
        /\ \A r \in q..(p - 1) : log[r][1] # CMD_X

\* C1 (as claimed): in every log an X frame is the last frame: there is at
\* most one X frame, and no O or E frame follows it.
C1_XIsLast ==
    \A log \in Logs : \A p \in XPositions(log) : p = Len(log)

\* C2: an X frame is appended only in a step that starts with neither
\* stdout_pipe nor stderr_pipe present and with the empty O frame and the
\* empty E frame of that child already appended.
C2_ExitAfterBothEof ==
    [][\A idx \in Sessions :
          AppendsX(idx) =>
              LET c == connections[idx + 1]
              IN  /\ c.stdout_pipe = NULL
                  /\ c.stderr_pipe = NULL
                  /\ EofSinceX(c.sent_log, Len(c.sent_log) + 1, CMD_O)
                  /\ EofSinceX(c.sent_log, Len(c.sent_log) + 1, CMD_E)]_vars

\* A connection has had its X frame appended after data and both end-of-file
\* frames.
C2_Witness ==
    \E log \in Logs : \E p \in XPositions(log) :
        /\ EofSinceX(log, p, CMD_O) /\ EofSinceX(log, p, CMD_E)
        /\ \E q \in 1..(p - 1) : log[q] = <<CMD_O, 1>>

\* C3 (as claimed): a complete non-empty I frame that waits at the head of
\* the receive buffer with no write in flight on stdin_pipe is eventually
\* dispatched (which puts a write in flight), unless the session is
\* destroyed or the server stops.
StalledHead(c) ==
    /\ c.stdin_pipe # NULL
    /\ c.recvbuf_used >= HEADER_SIZE
    /\ HeaderCommand(c.recvbuf) = CMD_I
    /\ HeaderLength(c.recvbuf) > 0
    /\ c.recvbuf_used >= HEADER_SIZE + HeaderLength(c.recvbuf)

C3_StalledFrameRetried ==
    (pc = "wait" /\ \E c \in Live : StalledHead(c) /\ ~c.stdin_pending)
        ~> (pc = "abort" \/ \A c \in Live : ~StalledHead(c) \/ c.stdin_pending)

\* C4 (as claimed): a session spawns a child at most once, and no child is
\* left running with its handle overwritten.
C4_SpawnAtMostOnce ==
    /\ orphans = 0
    /\ \A c \in Live : c.spawns <= 1

\* C5 (as claimed): a step in which a session spawns a child leaves that
\* session in CS_RUNNING.
C5_SpawnEntersRunning ==
    [][\A idx \in Sessions :
          (/\ idx < num_connections'
           /\ connections'[idx + 1].id = connections[idx + 1].id
           /\ connections'[idx + 1].spawns > connections[idx + 1].spawns)
          => connections'[idx + 1].state = CS_RUNNING]_vars

\* C6 (as claimed): a session in CS_SETUP has no process handle and no pipe.
C6_SetupHasNoChild ==
    \A c \in Live :
        c.state = CS_SETUP =>
            /\ c.process = NULL
            /\ c.stdin_pipe = NULL
            /\ c.stdout_pipe = NULL
            /\ c.stderr_pipe = NULL

\* C7 (as claimed): when the wait set is assembled, a session in CS_CLOSING
\* has no process handle, no stdout_pipe, no stderr_pipe, and a send buffer
\* that still holds bytes of its X frame.
C7_ClosingAtWait ==
    pc = "wait" =>
        \A c \in Live :
            c.state = CS_CLOSING =>
                /\ c.process = NULL
                /\ c.stdout_pipe = NULL
                /\ c.stderr_pipe = NULL
                /\ c.sendbuf_used > 0
                /\ XUnsent(c.sent_log, c.sendbuf_used)

\* The reasons of connection_close the claim C8 allows for: a socket error,
\* the end of the client's stream, a byte that is no command.
C8_Excused == {"recv_eof", "recv_error", "send_error", "bad_command"}

\* C8 (as claimed): no session stays in CS_CLOSING with an empty send
\* buffer, and a session destroyed in CS_CLOSING with bytes of its X frame
\* unsent was destroyed for a socket error, end of stream or a protocol
\* violation.
C8_ClosingDestroyedOnDrain ==
    /\ \A c \in Live : c.state = CS_CLOSING => c.sendbuf_used > 0
    /\ \A j \in 1..Len(graveyard) :
           (/\ graveyard[j].state = CS_CLOSING
            /\ XUnsent(graveyard[j].sent_log, graveyard[j].sendbuf_used))
           => graveyard[j].reason \in C8_Excused

\* C9 (as claimed): no session is destroyed because a frame did not fit in
\* its send buffer.
C9_GatesSufficient ==
    \A j \in 1..Len(graveyard) : graveyard[j].reason # "sendbuf_full"

RECURSIVE Payloads(_, _)
\* The payloads, concatenated, of the frames of one command in a stream of
\* frames as connection_write lays them out (struct MessageHeader, then
\* payload_length bytes); the last frame may be cut short.  This is what
\* the server put on the wire, not what a client makes of it.
Payloads(stream, command) ==
    IF BLen(stream) < HEADER_SIZE THEN <<>>
    ELSE LET payload == Take(Drop(stream, HEADER_SIZE), HeaderLength(stream))
             rest    == Drop(stream, HEADER_SIZE + HeaderLength(stream))
         IN  IF HeaderCommand(stream) = command
                THEN Cat(payload, Payloads(rest, command))
                ELSE Payloads(rest, command)

\* The bytes the read completions of the pipe of command have delivered.
Delivered(c, command) ==
    IF PipePos(c, command) = 0 THEN <<>>
    ELSE <<Run(PipeSrc(command), 0, PipePos(c, command))>>

\* C10: for a live session and each of its output pipes, the payloads of
\* the frames sent and waiting to be sent are, in order, exactly the bytes
\* the pipe's read completions delivered, and the payloads handed to the
\* socket so far are the first of those bytes.
C10_ByteExact ==
    \A c \in Live : \A command \in {CMD_O, CMD_E} :
        LET queued == Take(c.sendbuf, c.sendbuf_used)
            sent   == Payloads(c.wire, command)
        IN  /\ Payloads(Cat(c.wire, queued), command) = Delivered(c, command)
            /\ sent = Take(Delivered(c, command), BLen(sent))

\* A session has forwarded four full reads of stdout: its send buffer filled
\* up after the third, the socket took part of it, and the reads resumed;
\* some of the bytes are sent and some still wait.
C10_Witness ==
    \E c \in Live :
        /\ c.stdout_pos = 4 * PIPE_READ_SIZE
        /\ c.partial_sends > 0
        /\ c.wire # <<>>
        /\ c.sendbuf_used > PIPE_READ_SIZE

\* The bytes of stdin data the client has sent so far.
StdinSent(c) == IF c.in_pos = 0 THEN <<>> ELSE <<Run("I", 0, c.in_pos)>>

\* The payloads of the I frames received or in flight and not yet handled.
StdinWaiting(c) == Payloads(Cat(Take(c.recvbuf, c.recvbuf_used), c.net_in), CMD_I)

\* The payload of the frame at the head of the receive buffer.
HeadPayload(c) == Take(Drop(c.recvbuf, HEADER_SIZE), HeaderLength(c.recvbuf))

\* C11: after every step the bytes submitted to a session's stdin pipe,
\* followed by the payloads of the I frames not yet handled, are exactly
\* the stdin bytes the client sent, in order (nothing lost, repeated or
\* reordered); and for a session the step keeps:
\*   - a step that submits bytes starts with no write in flight;
\*   - a step that starts with a stalled I frame and the write in flight
\*     handles no frame: nothing is submitted, the pipe stays, and the
\*     buffered input stays where it is, new bytes only behind it;
\*   - a step that starts with a stalled I frame and submits bytes submits
\*     the payload of that frame and no more.
C11_StdinInOrder ==
    [][\A idx \in 0..(num_connections' - 1) :
          LET d == connections'[idx + 1]
              c == connections[idx + 1]
          IN  /\ Cat(d.stdin_log, StdinWaiting(d)) = StdinSent(d)
              /\ (idx < num_connections /\ c.id = d.id) =>
                    /\ d.stdin_log # c.stdin_log => ~c.stdin_pending
                    /\ (StalledHead(c) /\ c.stdin_pending) =>
                          /\ d.stdin_log = c.stdin_log
                          /\ d.stdin_pipe = c.stdin_pipe
                          /\ d.recvbuf_used >= c.recvbuf_used
                          /\ Take(d.recvbuf, c.recvbuf_used)
                                = Take(c.recvbuf, c.recvbuf_used)
                    /\ (StalledHead(c) /\ d.stdin_log # c.stdin_log) =>
                          d.stdin_log = Cat(c.stdin_log, HeadPayload(c))]_vars

\* A session has submitted three payloads, two of them from frames that had
\* stalled and were dispatched again after the write before them completed;
\* now a write is in flight, the next I frame is stalled at the head of the
\* receive buffer and another frame waits behind it.
C11_Witness ==
    \E c \in Live :
        /\ StalledHead(c)
        /\ c.stdin_pending
        /\ c.stdin_stalled
        /\ c.stdin_retries >= 2
        /\ c.recvbuf_used > HEADER_SIZE + HeaderLength(c.recvbuf)
        /\ BLen(c.stdin_log) = 3

\* C12 (as claimed): every slot of the connection table below
\* num_connections holds a session whose socket is open.
C12_TableDense ==
    \A j \in 1..num_connections : connections[j].sock # INVALID_SOCKET

\* C13: the connection table never holds more than MAX_CONNECTIONS
\* sessions, and an accept that finds it full leaves the table, the count
\* and the next session id as they were.
C13_TableCapped ==
    [][/\ num_connections' <= MAX_CONNECTIONS
       /\ (accepted' > accepted /\ num_connections = MAX_CONNECTIONS)
              => /\ connections' = connections
                 /\ num_connections' = num_connections
                 /\ next_connection_id' = next_connection_id]_vars

\* A connection was accepted while the table was full, and the table is
\* still full.
C13_Witness ==
    /\ accepted = MAX_CONNECTIONS + 1
    /\ num_connections = MAX_CONNECTIONS

\* C14 (as claimed): once a session has been destroyed, no child whose exit
\* was not observed is left without a handle: connection_close has
\* terminated every child of the session.
C14_ChildrenTerminated ==
    Len(graveyard) > 0 => orphans = 0

\* The reasons of connection_close in a failed case 'E'.
ExecuteFailures == {"pipe_create_failed", "spawn_failed"}

\* C15 (as claimed): a session destroyed because handling an E frame failed
\* never was in CS_RUNNING, held no child handle when the frame failed, and
\* never had an X frame appended.
C15_FailedExecuteLeavesNothing ==
    \A j \in 1..Len(graveyard) :
        graveyard[j].reason \in ExecuteFailures
            => /\ graveyard[j].state # CS_RUNNING
               /\ graveyard[j].process = NULL
               /\ XPositions(graveyard[j].sent_log) = {}

\* A complete frame of no known command is at the head of buf.
UnknownHead(buf, used) ==
    /\ used >= HEADER_SIZE
    /\ used >= HEADER_SIZE + HeaderLength(buf)
    /\ HeaderCommand(buf) \notin KnownCommands

RECURSIVE UnknownFrames(_)
\* The number of frames of no known command in a stream of frames whose
\* last frame may be cut short.
UnknownFrames(stream) ==
    IF BLen(stream) < HEADER_SIZE THEN 0
    ELSE (IF HeaderCommand(stream) \notin KnownCommands THEN 1 ELSE 0)
         + UnknownFrames(Drop(stream, HEADER_SIZE + HeaderLength(stream)))

\* C16: after every step no live session has a complete frame of unknown
\* command at the head of its receive buffer, and every such frame its
\* client sent is still on its way or cut short in the buffer (none was
\* handled by a session that lives on); the step that destroys a session
\* for such a frame leaves the frame at the head of the buffer and appends
\* nothing to the send buffer.
C16_UnknownCommandDestroys ==
    [][/\ \A j \in 1..num_connections' :
             LET d == connections'[j]
             IN  /\ ~UnknownHead(d.recvbuf, d.recvbuf_used)
                 /\ UnknownFrames(Cat(Take(d.recvbuf, d.recvbuf_used), d.net_in)) = d.bad_in
       /\ (/\ Len(graveyard') > Len(graveyard)
           /\ graveyard'[Len(graveyard')].reason = "bad_command")
              => LET g == graveyard'[Len(graveyard')]
                     c == connections[scan_i + 1]
                 IN  /\ g.id = c.id
                     /\ g.sent_log = c.sent_log
                     /\ UnknownHead(g.recvbuf, g.recvbuf_used)]_vars

\* A session was destroyed for a frame of unknown command while it was in
\* CS_CLOSING with its X frame unsent, after it had forwarded output.
C16_Witness ==
    \E j \in 1..Len(graveyard) :
        /\ graveyard[j].reason = "bad_command"
        /\ graveyard[j].state = CS_CLOSING
        /\ XUnsent(graveyard[j].sent_log, graveyard[j].sendbuf_used)

\* C17 (as claimed): the server calls abort() only after
\* pipe9x_read_initiate answered neither ERROR_IO_PENDING nor
\* ERROR_BROKEN_PIPE.
C17_AbortOnlyOnImpossible ==
    abort_answer \in {"none", "other"}

\* The buffers of a session, live (c) or as connection_close found it (g),
\* are within their capacity, and the bytes waiting in the send buffer with
\* the bytes the socket took are those of the frames appended, all whole.
WithinCapacity(recvbuf_used, sendbuf_used, sent, log) ==
    /\ 0 <= recvbuf_used /\ recvbuf_used <= RECVBUF_SIZE
    /\ 0 <= sendbuf_used /\ sendbuf_used <= SENDBUF_SIZE
    /\ sendbuf_used + sent = LogBytes(log, 0)

\* C18: after every step the buffers of every session, live or destroyed in
\* that step, are within RECVBUF_SIZE and SENDBUF_SIZE and the send buffer
\* holds whole frames only; a step stores no more received bytes than the
\* receive buffer had room for; and a session destroyed because a frame did
\* not fit has none of that frame's bytes in its buffer.
C18_BuffersBounded ==
    [][/\ \A j \in 1..num_connections' :
             LET d == connections'[j]
             IN  /\ WithinCapacity(d.recvbuf_used, d.sendbuf_used, BLen(d.wire), d.sent_log)
                 /\ d.recvbuf_used <= BLen(d.recvbuf)
                 /\ BLen(d.recvbuf) <= RECVBUF_SIZE
                 /\ BLen(d.sendbuf) = d.sendbuf_used
       /\ \A j \in 1..Len(graveyard') :
             LET g == graveyard'[j]
             IN  WithinCapacity(g.recvbuf_used, g.sendbuf_used, g.wire_used, g.sent_log)
       /\ \A idx \in Sessions :
             (idx < num_connections' /\ connections'[idx + 1].id = connections[idx + 1].id)
                 => connections'[idx + 1].bytes_in - connections[idx + 1].bytes_in
                        <= recvbuf_available(connections[idx + 1])]_vars

\* A session whose receive buffer was full to the last byte was destroyed
\* because a frame did not fit in its send buffer.
C18_Witness ==
    \E j \in 1..Len(graveyard) :
        /\ graveyard[j].reason = "sendbuf_full"
        /\ graveyard[j].recvbuf_used = RECVBUF_SIZE
        /\ graveyard[j].sendbuf_used > SENDBUF_SIZE - HEADER_SIZE

\* C19: no session, live or destroyed, ever started a read or a write on a
\* pipe handle that still had an operation outstanding.
C19_OneOperationPerPipe ==
    /\ \A c \in Live : ~c.overlapped
    /\ \A j \in 1..Len(graveyard) : ~graveyard[j].overlapped

\* A session has consumed two read completions of stdout and started the
\* next read, while a write on stdin is in flight and the next I frame
\* waits for it.
C19_Witness ==
    \E c \in Live :
        /\ c.reads >= 2
        /\ c.stdout_armed
        /\ c.stdin_pending
        /\ StalledHead(c)

\* A complete frame is at the head of buf.
CompleteHead(buf) ==
    BLen(buf) >= HEADER_SIZE /\ BLen(buf) >= HEADER_SIZE + HeaderLength(buf)

RECURSIVE Residue(_)
\* What is left of buf when every complete frame is taken from its head.
Residue(buf) ==
    IF CompleteHead(buf) THEN Residue(Drop(buf, HEADER_SIZE + HeaderLength(buf))) ELSE buf

RECURSIVE LastString(_, _, _)
\* The string the frames of command at the head of buf leave in their
\* field, which held old.
LastString(buf, command, old) ==
    IF ~CompleteHead(buf) THEN old
    ELSE LastString(Drop(buf, HEADER_SIZE + HeaderLength(buf)), command,
                    IF HeaderCommand(buf) = command
                       THEN <<Take(Drop(buf, HEADER_SIZE), HeaderLength(buf))>> ELSE old)

\* The field of c a string command names.
StringField(c, command) ==
    IF command = CMD_A THEN c.application_path
    ELSE IF command = CMD_C THEN c.command_line
    ELSE c.working_directory

\* Payloads of some lengths from 0 to 65535.
SamplePayloads ==
    {IF n = 0 THEN <<>> ELSE <<Run("S", 0, n)>> : n \in {0, 1, 255, 256, 257, MAX_PAYLOAD}}

\* C20: the header and payload read back from an encoded frame are the
\* command and payload that were encoded; and a step that receives bytes
\* and keeps the session leaves in the receive buffer exactly the bytes
\* that follow the complete frames at the head of what was buffered and
\* received (all of it while the head frame is incomplete), in order, and
\* in every string field the payload of the last of those frames that names
\* it.
C20_FrameParsing ==
    /\ \A cmd \in KnownCommands \cup {CMD_O, CMD_X, CMD_BAD} : \A p \in SamplePayloads :
           LET f == EncodeFrame(cmd, p)
           IN  /\ BLen(f) = HEADER_SIZE + BLen(p)
               /\ HeaderCommand(f) = cmd
               /\ HeaderLength(f) = BLen(p)
               /\ Take(Drop(f, HEADER_SIZE), HeaderLength(f)) = p
    /\ [][(/\ pc = "sock"
           /\ scan_i < num_connections
           /\ num_connections' = num_connections
           /\ connections'[scan_i + 1].id = connections[scan_i + 1].id
           /\ connections'[scan_i + 1].frames_in = connections[scan_i + 1].frames_in
           /\ connections'[scan_i + 1].bytes_in > connections[scan_i + 1].bytes_in)
          => \A c \in {connections[scan_i + 1]} :
             \A d \in {connections'[scan_i + 1]} :
             \A buf \in {Cat(Take(c.recvbuf, c.recvbuf_used),
                             Take(c.net_in, d.bytes_in - c.bytes_in))} :
                 /\ Take(d.recvbuf, d.recvbuf_used) = Residue(buf)
                 /\ d.recvbuf_used = BLen(Residue(buf))
                 /\ ~CompleteHead(buf) =>
                        /\ Take(d.recvbuf, d.recvbuf_used) = buf
                        /\ \A command \in {CMD_A, CMD_C, CMD_W} :
                               StringField(d, command) = StringField(c, command)
                 /\ \A command \in {CMD_A, CMD_C, CMD_W} :
                        StringField(d, command)
                            = LastString(buf, command, StringField(c, command))]_vars

\* A session has stored a path of LongPayload bytes from a frame that was
\* followed in the buffer by the first two bytes of the next frame, which
\* are still there while the rest of that frame is on its way.
C20_Witness ==
    \E c \in Live :
        /\ c.application_path = << <<Run("S", 0, LongPayload)>> >>
        /\ c.recvbuf_used = HEADER_SIZE - 1
        /\ c.net_in # <<>>

\* C21: whenever the wait set is assembled, for every session in the table:
\* the read event of stdout (stderr) is waited on iff the pipe is present
\* and the send buffer has 3 + 32768 spare bytes; the process handle iff the
\* child is present, both output pipes are absent and 7 bytes are spare;
\* the write event of stdin iff stdin_pipe is present with a write in flight.
C21_WaitSetGates ==
    pc = "wait" =>
        \A c \in Live :
            LET spare == SENDBUF_SIZE - c.sendbuf_used
            IN  /\ Waited(c, "stdout") <=> (c.stdout_pipe # NULL /\ spare >= 3 + 32768)
                /\ Waited(c, "stderr") <=> (c.stderr_pipe # NULL /\ spare >= 3 + 32768)
                /\ Waited(c, "process") <=> (/\ c.process # NULL
                                            /\ c.stdout_pipe = NULL
                                            /\ c.stderr_pipe = NULL
                                            /\ spare >= 7)
                /\ Waited(c, "stdin") <=> (c.stdin_pipe # NULL /\ c.stdin_pending)

\* The wait set is assembled for a session whose stdout pipe is present but
\* not waited on, the send buffer being too full, while the write event of
\* stdin is waited on.
C21_Witness ==
    /\ pc = "wait"
    /\ \E c \in Live :
          /\ c.stdout_pipe # NULL
          /\ ~Waited(c, "stdout")
          /\ Waited(c, "stdin")
          /\ c.process # NULL
          /\ ~Waited(c, "process")

\* C22 (as claimed): when the server waits with a session whose receive
\* buffer is full, a complete I frame stalled at its head and no write in
\* flight on stdin_pipe, the buffer eventually has spare capacity again,
\* unless the session is destroyed or the server stops.
C22_InboundResumes ==
    (/\ pc = "wait"
     /\ \E c \in Live : /\ c.recvbuf_used = RECVBUF_SIZE
                        /\ StalledHead(c)
                        /\ ~c.stdin_pending)
        ~> (pc = "abort" \/ \A c \in Live : c.recvbuf_used < RECVBUF_SIZE)

\* The reasons of connection_close that are errors or the end of the
\* client's socket.
SocketFailures == {"recv_eof", "recv_error", "send_error"}

\* C23 (as claimed): a session that spawned a child and forwarded the end of
\* file of both output pipes is destroyed, unless its socket failed or
\* ended, only by the drain of its send buffer after the X frame was
\* appended.
C23_ExitDelivered ==
    \A j \in 1..Len(graveyard) :
        LET g == graveyard[j]
        IN  (/\ g.spawns > 0
             /\ \E p \in 1..Len(g.sent_log) : g.sent_log[p] = <<CMD_O, 0>>
             /\ \E p \in 1..Len(g.sent_log) : g.sent_log[p] = <<CMD_E, 0>>
             /\ g.reason \notin SocketFailures)
            => /\ g.reason = "drained"
               /\ g.sendbuf_used = 0
               /\ XPositions(g.sent_log) # {}

\* A complete E frame is at the head of the receive buffer of c, whose
\* application_path is a null pointer.
ExecuteWithoutPath(c) ==
    /\ c.recvbuf_used >= HEADER_SIZE
    /\ c.recvbuf_used >= HEADER_SIZE + HeaderLength(c.recvbuf)
    /\ HeaderCommand(c.recvbuf) = CMD_E
    /\ c.application_path = NULL_STR

\* C24 (as claimed): the server does not crash while it handles an E frame
\* of a session whose application_path was never set.
C24_NullPathInherits ==
    \A c \in Live : ExecuteWithoutPath(c) => ~(pc = "abort" /\ abort_answer = "none")

\* <<command, 0>> is in log.
HasEof(log, command) == \E p \in 1..Len(log) : log[p] = <<command, 0>>

\* C25: for every session and each of its output pipes: a step appends the
\* empty frame of the pipe only while the pipe is present, as the last
\* frame of the step, when none was appended before, and leaves the pipe
\* absent and not armed; no frame of the pipe is appended after its empty
\* frame; a step that consumes a completion of zero bytes appends nothing
\* and leaves the pipes that are present armed, or appends one empty frame
\* (the next read found the end of the file); and after every step only
\* pipes that are present are armed.
C25_EmptyFrameIsEof ==
    [][/\ \A idx \in Sessions : \A command \in {CMD_O, CMD_E} :
             LET c    == connections[idx + 1]
                 old  == c.sent_log
                 new  == LogAfter(idx)
                 kept == idx < num_connections' /\ connections'[idx + 1].id = c.id
                 added == {p \in (Len(old) + 1)..Len(new) : new[p][1] = command}
             IN  /\ added # {} => ~HasEof(old, command)
                 /\ (\E p \in added : new[p] = <<command, 0>>)
                        => /\ PipeOf(c, command) # NULL
                           /\ new[Len(new)] = <<command, 0>>
                           /\ kept => /\ PipeOf(connections'[idx + 1], command) = NULL
                                      /\ ~PipeArmed(connections'[idx + 1], command)
                 /\ (/\ kept
                     /\ connections'[idx + 1].reads = c.reads + 1
                     /\ connections'[idx + 1].stdout_pos = c.stdout_pos
                     /\ connections'[idx + 1].stderr_pos = c.stderr_pos)
                        => \/ /\ new = old
                              /\ (pc' # "abort" /\ PipeOf(connections'[idx + 1], command) # NULL)
                                    => PipeArmed(connections'[idx + 1], command)
                           \/ /\ Len(new) = Len(old) + 1
                              /\ new[Len(new)][2] = 0
       /\ \A j \in 1..num_connections' : \A command \in {CMD_O, CMD_E} :
             PipeArmed(connections'[j], command) => PipeOf(connections'[j], command) # NULL]_vars

\* A session has consumed a read completion of zero bytes and then data
\* from stdout, and has appended the empty frame of stdout after the data.
C25_Witness ==
    \E c \in Live :
        /\ c.reads >= 2
        /\ c.stdout_pos = PIPE_READ_SIZE
        /\ c.stderr_pos = 0
        /\ c.stdout_pipe = NULL
        /\ c.sent_log # <<>>
        /\ c.sent_log[Len(c.sent_log)] = <<CMD_O, 0>>
        /\ c.sent_log[1] = <<CMD_O, PIPE_READ_SIZE>>

\* C26 (as claimed): a step that destroys a session leaves every other
\* session of the table whose socket is open in the table, with all its
\* fields as they were.
C26_CloseAffectsOneSession ==
    [][Len(graveyard') > Len(graveyard)
          => \A j \in 1..num_connections :
                (/\ connections[j].sock # INVALID_SOCKET
                 /\ connections[j].id # graveyard'[Len(graveyard')].id)
                    => \E k \in 1..num_connections' : connections'[k] = connections[j]]_vars

\* C27 (as claimed): stdin_pipe is closed only when it is present and no
\* write is in flight on it: a step that keeps a session and takes its
\* stdin_pipe from present to absent starts with no write pending on the
\* pipe, and an empty I frame met while stdin_pipe is absent closes nothing,
\* so the server does not stop on it.
C27_StdinClosedWhenIdle ==
    [][/\ \A j \in 1..num_connections : \A k \in 1..num_connections' :
            (/\ connections'[k].id = connections[j].id
             /\ connections[j].sock # INVALID_SOCKET
             /\ connections'[k].sock # INVALID_SOCKET
             /\ connections[j].stdin_pipe # NULL
             /\ connections'[k].stdin_pipe = NULL)
                => ~connections[j].stdin_pending
       /\ (pc' = "abort" /\ pc # "abort" /\ abort_answer' = "none")
              => \A k \in 1..num_connections' :
                    ~(/\ connections'[k].sock # INVALID_SOCKET
                      /\ connections'[k].stdin_pipe = NULL
                      /\ connections'[k].recvbuf_used >= HEADER_SIZE
                      /\ HeaderCommand(connections'[k].recvbuf) = CMD_I
                      /\ HeaderLength(connections'[k].recvbuf) = 0)]_vars

\* C28: at every assembly of the wait set the handles placed in
\* wait_handles[] fit its 1 + 3 * MAX_CONNECTIONS = 49 elements: the table
\* holds at most MAX_CONNECTIONS sessions, each adds at most three handles,
\* and the process handle is added only when neither read event is.
C28_WaitSetFits ==
    pc = "wait" =>
        /\ WaitCapacity = 49
        /\ num_connections <= MAX_CONNECTIONS
        /\ num_wait_handles(connections, num_connections) <= 1 + 3 * num_connections
        /\ num_wait_handles(connections, num_connections) <= WaitCapacity
        /\ \A j \in 1..num_connections :
              /\ Len(wait_handles(connections[j])) <= 3
              /\ Waited(connections[j], "process")
                    => /\ ~Waited(connections[j], "stdout")
                       /\ ~Waited(connections[j], "stderr")

\* A wait with a session that adds three handles: both read events and the
\* write event of stdin.
C28_Witness ==
    /\ pc = "wait"
    /\ num_connections = 1
    /\ wait_handles(connections[1]) = <<"stdout", "stderr", "stdin">>
    /\ num_wait_handles(connections, num_connections) = 4

====
